---- MODULE Spec2Model ----
(***************************************************************************)
(* Presence signaling server, obstruction-aware variant                    *)
(* (src/unnamed/part_005, lines 64-286): address-keyed two-slot sessions,  *)
(* join / relay / collapse handlers, soft obstruction timers, heartbeat    *)
(* sweep.  Every handler runs to completion on the single-threaded event    *)
(* loop, so each handler is one action.  The role-aware variant            *)
(* (src/unnamed/part_008) is modelled in a section of its own.             *)
(***************************************************************************)
EXTENDS Integers, Sequences, FiniteSets, TLC

\* ---------------------------------------------------------------- bounds
NConn == 3
NKeys == 1
\* session keys in the specification whose clients join under several keys
NAddr == 2
\* grace timers pending at a time in that specification
MaxPending == 1

\* ------------------------------------------------------ program constants
COLLAPSE_GRACE_SECONDS == 10

Conn == 1..NConn
Keys == 1..NKeys
Addr == 1..NAddr
Null == 0
NoKey == 0

\* msg.reason of a collapse_hard message: absent, or a string the client chose
Reasons == {"absent", "client_reason"}
\* msg.type values that fall through to the default (relay) branch
Payloads == {"offer", "ice", "text", "peer_obstructed"}

VARIABLES
    sessions,    \* the Map sessions: key -> [a, b, timers]
    sessionId,   \* ws.sessionId of every connection
    readyState,  \* "new" (not accepted), "open", "closing" (not OPEN, close event pending), "closed"
    isAlive,     \* ws.isAlive
    live,        \* pending setTimeout handles of startObstruction, <<key, peer>>, in arming order
    out,         \* what ws.send transmitted during the last handler: <<to, msg>> in order
    ev,          \* the handler that ran last and its input
    readyPairs,  \* history: per key, pairings notified since the entry was created (capped at 2)
    descRelayed, \* history: keys of the sessions in which an offer/answer was delivered since the last pairing
    removed,     \* history: connections that hardCollapse took out of a slot and that sent no join since
    pinged,      \* history: connections a sweep sent ws.ping() to whose pong has not arrived since
    fault,       \* an exception escaped a callback: the process is down
    registry,    \* part_007: the Map registry, address -> socket
    listening,   \* connections whose message and close handlers were registered
    rooms,       \* part_001: the Map rooms, room id -> array of sockets
    told         \* part_001: the roles each connection was notified of

vars == <<sessions, sessionId, readyState, isAlive, live, out, ev, readyPairs, descRelayed, removed,
          pinged, fault, registry, listening, rooms, told>>

\* The store the helper functions read and write.
St == [sessions |-> sessions, sessionId |-> sessionId, readyState |-> readyState,
       isAlive |-> isAlive, live |-> live, out |-> <<>>,
       readyPairs |-> readyPairs, descRelayed |-> descRelayed, removed |-> removed,
       pinged |-> pinged, fault |-> fault, registry |-> registry, listening |-> listening,
       rooms |-> rooms, told |-> told]

\* ---------------------------------------------------------------- helpers

\* Map.set / Map.delete on the session table
MapSet(m, k, v) == [kk \in (DOMAIN m) \cup {k} |-> IF kk = k THEN v ELSE m[kk]]
MapDelete(m, k) == [kk \in (DOMAIN m) \ {k} |-> m[kk]]

IsDescriptor(msg) == msg.type \in {"offer", "answer"}

\* s without its entries equal to h
RECURSIVE SeqWithout(_, _)
SeqWithout(s, h) ==
    IF s = << >> THEN << >>
    ELSE IF Head(s) = h THEN SeqWithout(Tail(s), h)
    ELSE << Head(s) >> \o SeqWithout(Tail(s), h)

\* a cancellation that forgets the pending handle
clearTimeoutForgotten(st, k, peer) == st

\* clearTimeout(s.timers.get(peer)) for the session under key k
clearTimeout(st, k, peer) == [st EXCEPT !.live = SeqWithout(@, <<k, peer>>)]

\* safeSend: a no-op unless the channel is OPEN
safeSend(st, ws, msg) ==
    IF ws # Null /\ st.readyState[ws] = "open"
    THEN [st EXCEPT !.out = Append(@, <<ws, msg>>)]
    ELSE st

\* getSession: the key of the table entry ws.sessionId names, NoKey for null
getSession(st, ws) ==
    IF st.sessionId[ws] # NoKey /\ st.sessionId[ws] \in DOMAIN st.sessions
    THEN st.sessionId[ws]
    ELSE NoKey

getPeer(st, ws) ==
    LET k == getSession(st, ws)
    IN  IF k = NoKey THEN Null
        ELSE IF st.sessions[k].a = ws THEN st.sessions[k].b ELSE st.sessions[k].a

\* s.timers.has(peer), with no check at all
alreadyObstructedUnchecked(st, k, peer) == FALSE

\* s.timers.has(peer)
alreadyObstructed(st, k, peer) == peer \in st.sessions[k].timers

startObstruction(st, actor, reason) ==
    LET peer == getPeer(st, actor)
        k    == getSession(st, actor)
    IN  IF peer = Null \/ k = NoKey THEN st
        ELSE IF alreadyObstructed(st, k, peer) THEN st
        ELSE LET s1 == safeSend(st, peer, [type |-> "peer_obstructed",
                                           seconds |-> COLLAPSE_GRACE_SECONDS,
                                           reason |-> reason])
             IN  [s1 EXCEPT !.sessions[k].timers = @ \cup {peer},
                            !.live = Append(@, <<k, peer>>)]

cancelObstruction(st, actor) ==
    LET k == getSession(st, actor)
    IN  IF k = NoKey THEN st
        ELSE IF actor \notin st.sessions[k].timers THEN st
        ELSE safeSend([clearTimeout(st, k, actor) EXCEPT !.sessions[k].timers = @ \ {actor}],
                      actor, [type |-> "peer_restored"])

\* !s.a && !s.b, never true
bothNullNever(a, b) == FALSE

\* !s.a && !s.b
bothNull(a, b) == a = Null /\ b = Null

cleanup(st, ws) ==
    LET k == getSession(st, ws)
    IN  IF k = NoKey THEN st
        ELSE LET s1 == cancelObstruction(st, ws)
                 s  == s1.sessions[k]
                 a2 == IF s.a = ws THEN Null ELSE s.a
                 b2 == IF s.b = ws THEN Null ELSE s.b
                 s2 == [s1 EXCEPT !.sessions[k].a = a2, !.sessions[k].b = b2]
             IN  IF bothNull(a2, b2)
                 THEN [s2 EXCEPT !.sessions = MapDelete(@, k), !.readyPairs[k] = 0,
                                 !.descRelayed = @ \ {k}]
                 ELSE s2

hardCollapse(st, ws, reason) ==
    LET peer == getPeer(st, ws)
        s1   == IF peer # Null
                THEN safeSend(st, peer, [type |-> "collapse_hard", reason |-> reason])
                ELSE st
        k    == getSession(st, ws)
        was  == k # NoKey /\ ws \in {st.sessions[k].a, st.sessions[k].b}
    IN  [cleanup(s1, ws) EXCEPT !.removed = IF was THEN @ \cup {ws} ELSE @]

\* ------------------------------------------------------------ message handler

\* the two ready notices with the roles exchanged
notifyReadySwapped(st, k) ==
    safeSend(safeSend(st, st.sessions[k].a, [type |-> "ready", role |-> "polite"]),
             st.sessions[k].b, [type |-> "ready", role |-> "initiator"])

\* the two ready notices of the pairing branch
notifyReady(st, k) ==
    safeSend(safeSend(st, st.sessions[k].a, [type |-> "ready", role |-> "initiator"]),
             st.sessions[k].b, [type |-> "ready", role |-> "polite"])

\* a new entry that seats its creator in slot B
newSessionInB(ws) == [a |-> Null, b |-> ws, timers |-> {}]

\* the entry sessions.set stores for an unknown key
newSession(ws) == [a |-> ws, b |-> Null, timers |-> {}]

\* if (!s.b), taken whatever slot B holds
slotBFreeAlways(s) == TRUE

\* if (!s.b)
slotBFree(s) == s.b = Null

\* case "join"
join(st, ws, sessionKey) ==
    IF sessionKey = NoKey THEN st
    ELSE LET s0 == [st EXCEPT !.sessionId[ws] = sessionKey, !.removed = @ \ {ws}]
         IN  IF sessionKey \notin DOMAIN s0.sessions
             THEN [s0 EXCEPT !.sessions = MapSet(@, sessionKey, newSession(ws))]
             ELSE IF slotBFree(s0.sessions[sessionKey])
             THEN notifyReady([s0 EXCEPT !.sessions[sessionKey].b = ws,
                                         !.descRelayed = @ \ {sessionKey},
                                         !.readyPairs[sessionKey] = IF @ < 2 THEN @ + 1 ELSE @],
                              sessionKey)
             ELSE s0

\* case "collapse_user"
collapseUser(st, ws) ==
    LET peer == getPeer(st, ws)
        s1   == IF peer # Null
                THEN safeSend(st, peer, [type |-> "peer_obstructed",
                                         reason |-> "remote_user_ended",
                                         seconds |-> COLLAPSE_GRACE_SECONDS])
                ELSE st
    IN  cleanup(s1, ws)

\* case "collapse_hard": msg.reason ?? "hard_violation"
collapseHardMsg(st, ws, reason) ==
    hardCollapse(st, ws, IF reason = "absent" THEN "hard_violation" ELSE reason)

\* default branch that holds a candidate back until a descriptor was relayed
relayHeld(st, ws, msg) ==
    LET peer == getPeer(st, ws)
        hold == msg.type = "ice" /\ getSession(st, ws) \notin st.descRelayed
        s1   == IF peer # Null /\ ~hold THEN safeSend(st, peer, msg) ELSE st
    IN  IF IsDescriptor(msg) /\ Len(s1.out) > 0
        THEN [s1 EXCEPT !.descRelayed = @ \cup {getSession(st, ws)}]
        ELSE s1

\* default branch that transmits the message twice
relayTwice(st, ws, msg) ==
    LET peer == getPeer(st, ws)
        s1   == IF peer # Null THEN safeSend(safeSend(st, peer, msg), peer, msg) ELSE st
    IN  IF IsDescriptor(msg) /\ Len(s1.out) > 0
        THEN [s1 EXCEPT !.descRelayed = @ \cup {getSession(st, ws)}]
        ELSE s1

\* default: relay the message verbatim
relay(st, ws, msg) ==
    LET peer == getPeer(st, ws)
        s1   == IF peer # Null THEN safeSend(st, peer, msg) ELSE st
    IN  IF IsDescriptor(msg) /\ Len(s1.out) > 0
        THEN [s1 EXCEPT !.descRelayed = @ \cup {getSession(st, ws)}]
        ELSE s1

\* the setTimeout callback of startObstruction
graceElapsed(st, k, peer) ==
    LET s0 == [st EXCEPT !.live = Tail(@)]
        s1 == safeSend(s0, peer, [type |-> "collapse_grace_elapsed",
                                  reason |-> "grace_elapsed"])
    IN  hardCollapse(s1, peer, "grace_elapsed")

\* a sweep that terminates a dead connection without collapsing it
sweepOneTerminateOnly(st, ws) ==
    IF ~st.isAlive[ws]
    THEN [st EXCEPT !.readyState[ws] = "closing"]
    ELSE [st EXCEPT !.isAlive[ws] = FALSE, !.pinged = @ \cup {ws}]

\* one iteration of wss.clients.forEach in the heartbeat interval
sweepOne(st, ws) ==
    IF ~st.isAlive[ws]
    THEN LET s1 == hardCollapse(st, ws, "heartbeat_timeout")
         IN  [s1 EXCEPT !.readyState[ws] = "closing"]
    ELSE [st EXCEPT !.isAlive[ws] = FALSE, !.pinged = @ \cup {ws}]

\* wss.clients in insertion order; connection ids are handed out in accept order
RECURSIVE sweepFrom(_, _)
sweepFrom(st, ws) ==
    IF ws > NConn THEN st
    ELSE IF st.readyState[ws] \in {"open", "closing"}
         THEN sweepFrom(sweepOne(st, ws), ws + 1)
         ELSE sweepFrom(st, ws + 1)

\* a JSON guard that treats an unparseable message as a violation
badJsonCollapses(st, ws) == hardCollapse(st, ws, "bad_json")

\* catch of JSON.parse: log and return
badJson(st, ws) == st

\* ------------------------------------------------------------------ actions

\* a handler runs (while the process is up) and leaves the store st
Commit(st, e) ==
    /\ ~fault
    /\ sessions' = st.sessions
    /\ sessionId' = st.sessionId
    /\ readyState' = st.readyState
    /\ isAlive' = st.isAlive
    /\ live' = st.live
    /\ out' = st.out
    /\ readyPairs' = st.readyPairs
    /\ descRelayed' = st.descRelayed
    /\ removed' = st.removed
    /\ pinged' = st.pinged
    /\ fault' = st.fault
    /\ registry' = st.registry
    /\ listening' = st.listening
    /\ rooms' = st.rooms
    /\ told' = st.told
    /\ ev' = e

Init ==
    /\ sessions = << >>
    /\ sessionId = [c \in Conn |-> NoKey]
    /\ readyState = [c \in Conn |-> "new"]
    /\ isAlive = [c \in Conn |-> FALSE]
    /\ live = << >>
    /\ out = << >>
    /\ ev = [op |-> "init"]
    /\ readyPairs = [k \in Keys \cup Addr |-> 0]
    /\ descRelayed = {}
    /\ removed = {}
    /\ pinged = {}
    /\ fault = FALSE
    /\ registry = << >>
    /\ listening = {}
    /\ rooms = << >>
    /\ told = [c \in Conn |-> {}]

\* a connection handler that leaves ws.isAlive unset
ConnectUnmarked ==
    \E c \in Conn :
        /\ readyState[c] = "new"
        /\ \A d \in Conn : d < c => readyState[d] # "new"
        /\ Commit([St EXCEPT !.readyState[c] = "open", !.sessionId[c] = NoKey,
                             !.isAlive[c] = FALSE, !.pinged = @ \ {c}],
                  [op |-> "connect", conn |-> c])

\* wss.on("connection")
Connect ==
    \E c \in Conn :
        /\ readyState[c] = "new"
        /\ \A d \in Conn : d < c => readyState[d] # "new"
        /\ Commit([St EXCEPT !.readyState[c] = "open", !.sessionId[c] = NoKey,
                             !.isAlive[c] = TRUE, !.pinged = @ \ {c}],
                  [op |-> "connect", conn |-> c])

\* ws.on("pong"): the reply to the ping of the last sweep
Pong ==
    \E c \in Conn :
        /\ readyState[c] = "open"
        /\ ~isAlive[c]
        /\ Commit([St EXCEPT !.isAlive[c] = TRUE, !.pinged = @ \ {c}],
                  [op |-> "pong", conn |-> c])

\* ws.on("message"), raw text that JSON.parse rejects
BadJson ==
    \E c \in Conn :
        /\ readyState[c] = "open"
        /\ Commit(badJson(St, c), [op |-> "bad_json", conn |-> c])

Join ==
    \E c \in Conn, k \in Keys \cup {NoKey} :
        /\ readyState[c] = "open"
        /\ Commit(join(St, c, k), [op |-> "join", conn |-> c, key |-> k])

CollapseUser ==
    \E c \in Conn :
        /\ readyState[c] = "open"
        /\ Commit(collapseUser(St, c), [op |-> "collapse_user", conn |-> c])

CollapseHard ==
    \E c \in Conn, r \in Reasons :
        /\ readyState[c] = "open"
        /\ Commit(collapseHardMsg(St, c, r), [op |-> "collapse_hard", conn |-> c])

PeerRestored ==
    \E c \in Conn :
        /\ readyState[c] = "open"
        /\ Commit(cancelObstruction(St, c), [op |-> "peer_restored", conn |-> c])

Relay ==
    \E c \in Conn, t \in Payloads :
        /\ readyState[c] = "open"
        /\ Commit(relay(St, c, [type |-> t]), [op |-> "relay", conn |-> c, type |-> t])

\* the peer goes away or the transport fails: the channel stops being OPEN,
\* the close event is still to come
Drop ==
    \E c \in Conn :
        /\ readyState[c] = "open"
        /\ Commit([St EXCEPT !.readyState[c] = "closing"], [op |-> "drop", conn |-> c])

\* ws.on("close")
Close ==
    \E c \in Conn :
        /\ readyState[c] = "closing"
        /\ Commit([hardCollapse(St, c, "socket_closed") EXCEPT !.readyState[c] = "closed"],
                  [op |-> "close", conn |-> c])

\* setInterval callback
Sweep ==
    /\ \E c \in Conn : readyState[c] \in {"open", "closing"}
    /\ Commit(sweepFrom(St, 1),
              [op |-> "sweep",
               unseated |-> {c \in Conn : /\ readyState[c] \in {"open", "closing"}
                                          /\ ~isAlive[c]
                                          /\ sessionId[c] \in DOMAIN sessions
                                          /\ c \in {sessions[sessionId[c]].a,
                                                     sessions[sessionId[c]].b}}])

\* startObstruction has no caller in the handlers; this is a direct call of it
StartObstruction ==
    \E c \in Conn :
        /\ readyState[c] = "open"
        /\ Commit(startObstruction(St, c, "unstable"), [op |-> "start_obstruction", conn |-> c])

\* all grace timers run COLLAPSE_GRACE_SECONDS, so they expire in arming order
GraceElapsed ==
    /\ live # << >>
    /\ Commit(graceElapsed(St, Head(live)[1], Head(live)[2]),
              [op |-> "grace_elapsed", conn |-> Head(live)[2], key |-> Head(live)[1]])

\* the server as wired: every handler the source registers
Next ==
    \/ Connect
    \/ Pong
    \/ BadJson
    \/ Join
    \/ CollapseUser
    \/ CollapseHard
    \/ PeerRestored
    \/ Relay
    \/ Drop
    \/ Close
    \/ Sweep

Spec == Init /\ [][Next]_vars

\* the same server with startObstruction called and its timers running
NextObs ==
    \/ Connect
    \/ Join
    \/ CollapseUser
    \/ CollapseHard
    \/ PeerRestored
    \/ Drop
    \/ Close
    \/ StartObstruction
    \/ GraceElapsed

SpecObs == Init /\ [][NextObs]_vars

\* case "join" from clients that move from key to key: every join names a key
\* the connection has not used yet (keys are taken in increasing order)
JoinAny ==
    \E c \in Conn, k \in Addr :
        /\ readyState[c] = "open"
        /\ sessionId[c] < k
        /\ Commit(join(St, c, k), [op |-> "join", conn |-> c, key |-> k])

\* a direct call of startObstruction while fewer than MaxPending timers run
Obstruct ==
    /\ Len(live) < MaxPending
    /\ StartObstruction

\* startObstruction and its timers among clients that join under several keys
NextRejoin ==
    \/ Connect
    \/ JoinAny
    \/ PeerRestored
    \/ Obstruct
    \/ GraceElapsed

SpecRejoin == Init /\ [][NextRejoin]_vars

\* join, relay and collapse_hard among clients that join under several keys
NextMove ==
    \/ Connect
    \/ JoinAny
    \/ Relay
    \/ CollapseHard

SpecMove == Init /\ [][NextMove]_vars

TypeOK ==
    /\ DOMAIN sessions \subseteq Keys \cup Addr
    /\ \A k \in DOMAIN sessions :
          /\ sessions[k].a \in Conn \cup {Null}
          /\ sessions[k].b \in Conn \cup {Null}
          /\ sessions[k].timers \subseteq Conn
    /\ sessionId \in [Conn -> Keys \cup Addr \cup {NoKey}]
    /\ readyState \in [Conn -> {"new", "open", "closing", "closed"}]
    /\ isAlive \in [Conn -> BOOLEAN]
    /\ \A i \in 1..Len(live) : live[i] \in (Keys \cup Addr) \X Conn
    /\ \A i \in 1..Len(out) : out[i][1] \in Conn
    /\ readyPairs \in [Keys \cup Addr -> 0..2]
    /\ descRelayed \subseteq Keys \cup Addr
    /\ removed \subseteq Conn
    /\ pinged \subseteq Conn
    /\ fault \in BOOLEAN
    /\ DOMAIN registry \subseteq Keys \cup Addr
    /\ \A k \in DOMAIN registry : registry[k] \in Conn
    /\ listening \subseteq Conn
    /\ DOMAIN rooms \subseteq Keys
    /\ \A k \in DOMAIN rooms : rooms[k] \in Seq(Conn)
    /\ told \in [Conn -> SUBSET {"initiator", "polite"}]

\* ------------------------------------------------------------ properties

Occupants(s) == {s.a, s.b} \ {Null}
Full(s) == s.a # Null /\ s.b # Null
\* the positions of the messages of type t in the outputs o
Of(o, t) == {i \in 1..Len(o) : o[i][2].type = t}
Recipients(o, t) == {o[i][1] : i \in Of(o, t)}
\* the step is a join on a key whose session has both slots occupied
FullJoinStep ==
    /\ ev'.op = "join"
    /\ ev'.key \in DOMAIN sessions
    /\ Full(sessions[ev'.key])
\* the occupant opposite to c in the session c.sessionId names, before the step
Opposite(c) == Occupants(sessions[sessionId[c]]) \ {c}
IsOccupant(c) ==
    /\ sessionId[c] \in DOMAIN sessions
    /\ c \in Occupants(sessions[sessionId[c]])

\* C1: every session holds 0, 1 or 2 occupants, and a join on a session whose
\* two slots are occupied leaves slot A and slot B of that session unchanged.
C1_FullJoinKeepsSlots ==
    /\ [](\A k \in DOMAIN sessions : Cardinality(Occupants(sessions[k])) \in 0..2)
    /\ [][FullJoinStep =>
            /\ ev'.key \in DOMAIN sessions'
            /\ sessions'[ev'.key].a = sessions[ev'.key].a
            /\ sessions'[ev'.key].b = sessions[ev'.key].b]_vars

\* a third connection has just joined a full session
C1_Witness ==
    /\ ev.op = "join"
    /\ ev.key \in DOMAIN sessions
    /\ Full(sessions[ev.key])
    /\ sessions[ev.key].a # sessions[ev.key].b
    /\ ev.conn \notin Occupants(sessions[ev.key])
    /\ sessionId[ev.conn] = ev.key

\* C2: a join on a session whose two slots are occupied by two other
\* connections sends an explicit notice to the joining connection.
C2_FullJoinNoticed ==
    [][(/\ FullJoinStep
        /\ sessions[ev'.key].a # sessions[ev'.key].b
        /\ ev'.conn \notin Occupants(sessions[ev'.key]))
         => \E i \in 1..Len(out') : out'[i][1] = ev'.conn]_vars

\* C3: the session table holds no session with slot A and slot B both null.
C3_NoEmptySession ==
    \A k \in DOMAIN sessions : ~(sessions[k].a = Null /\ sessions[k].b = Null)

\* the close of the last occupant has just removed its session
C3_Witness ==
    /\ ev.op = "close"
    /\ ev.conn \in removed
    /\ sessionId[ev.conn] \notin DOMAIN sessions

C5_RolesBySlot ==
    [][\A i \in Of(out', "ready") :
         /\ ev'.op = "join"
         /\ ev'.key \in DOMAIN sessions
         /\ ev'.key \in DOMAIN sessions'
         /\ out'[i][2].role \in {"initiator", "polite"}
         /\ out'[i][2].role = "initiator" =>
               /\ out'[i][1] = sessions'[ev'.key].a
               /\ sessions[ev'.key].a = sessions'[ev'.key].a
         /\ out'[i][2].role = "polite" =>
               /\ out'[i][1] = sessions'[ev'.key].b
               /\ sessions[ev'.key].b = Null
               /\ ev'.conn = sessions'[ev'.key].b]_vars

\* a pairing has just notified two distinct occupants
C5_Witness ==
    /\ ev.op = "join"
    /\ ev.key \in DOMAIN sessions
    /\ sessions[ev.key].a # sessions[ev.key].b
    /\ out = << <<sessions[ev.key].a, [type |-> "ready", role |-> "initiator"]>>,
                <<sessions[ev.key].b, [type |-> "ready", role |-> "polite"]>> >>

\* C6: the join that fills slot B delivers ready to both occupants in that step.
C6_ReadyToBoth ==
    (ev.op = "join" /\ Of(out, "ready") # {}) =>
        /\ ev.key \in DOMAIN sessions
        /\ {sessions[ev.key].a, sessions[ev.key].b} \subseteq Recipients(out, "ready")

\* the step relays a candidate sent by an occupant
IceStep ==
    /\ ev'.op = "relay"
    /\ ev'.type = "ice"
    /\ IsOccupant(ev'.conn)

Outstanding(k, p) == Cardinality({i \in 1..Len(live) : live[i] = <<k, p>>})

\* C8: at most one obstruction timer is outstanding per occupant, and
\* startObstruction on an occupant that already has a timer arms none, sends
\* no notice and leaves the existing timer untouched.
C8_OneTimerPerOccupant ==
    /\ [](\A k \in Keys, p \in Conn : Outstanding(k, p) <= 1)
    /\ [][(/\ ev'.op = "start_obstruction"
            /\ sessionId[ev'.conn] \in DOMAIN sessions
            /\ getPeer(St, ev'.conn) \in sessions[sessionId[ev'.conn]].timers)
           => (live' = live /\ sessions' = sessions /\ out' = << >>)]_vars

\* startObstruction has just been called on an occupant whose timer is pending
C8_Witness ==
    /\ ev.op = "start_obstruction"
    /\ out = << >>
    /\ sessionId[ev.conn] \in DOMAIN sessions
    /\ \E p \in Opposite(ev.conn) :
          /\ readyState[p] = "open"
          /\ p \in sessions[sessionId[ev.conn]].timers
          /\ Outstanding(sessionId[ev.conn], p) = 1

\* C9: hardCollapse on a connection that hard collapse already took out of its
\* slot sends nothing and changes no session.
C9_CollapseIdempotent ==
    [][(ev'.op \in {"close", "collapse_hard"} /\ ev'.conn \in removed)
         => (out' = << >> /\ sessions' = sessions)]_vars

\* C10: nothing a connection sends after hard collapse took it out of its slot
\* is relayed.
C10_NoRelayAfterCollapse ==
    [][(ev'.op = "relay" /\ ev'.conn \in removed) => out' = << >>]_vars

\* c held a slot of session k before the step and holds none after it, while p
\* holds a slot of k after the step with its channel open
RemovedBeside(c, p, k) ==
    /\ k \in DOMAIN sessions
    /\ c \in Occupants(sessions[k])
    /\ k \in DOMAIN sessions'
    /\ c \notin Occupants(sessions'[k])
    /\ p \in Occupants(sessions'[k])
    /\ readyState'[p] = "open"
\* the terminal notices among the outputs o: collapse_hard carrying a reason
Terminal(o) == {i \in 1..Len(o) : o[i][2].type = "collapse_hard" /\ "reason" \in DOMAIN o[i][2]}

\* C11: whenever a step removes an occupant from a session in which another
\* occupant stays seated with an open channel, that step sends the remaining
\* occupant a terminal notice carrying a reason code.
C11_RemainingToldTerminal ==
    [][\A k \in Keys : \A c, p \in Conn :
          RemovedBeside(c, p, k) => \E i \in Terminal(out') : out'[i][1] = p]_vars

\* ------------------------------------------- role-aware variant (part_008)
\* src/unnamed/part_008: the same table with sessions of two slots and no
\* timers; connection, pong, JSON guard, safeSend and getPeer are the code of
\* part_005, and the history variables are left alone.

\* msg.type values of the relay case that the model sends
Relayed_008 == {"webrtc_offer", "text"}

\* cleanup that deletes the entry as soon as one occupant leaves
cleanupEager_008(st, ws) ==
    LET k == getSession(st, ws)
    IN  IF k = NoKey \/ k \notin DOMAIN st.sessions THEN st
        ELSE [st EXCEPT !.sessions = MapDelete(@, k)]

\* cleanup(ws)
cleanup_008(st, ws) ==
    LET k == getSession(st, ws)
    IN  IF k = NoKey \/ k \notin DOMAIN st.sessions THEN st
        ELSE LET s == st.sessions[k]
                 a == IF s.a = ws THEN Null ELSE s.a
                 b == IF s.b = ws THEN Null ELSE s.b
             IN  IF a = Null /\ b = Null
                 THEN [st EXCEPT !.sessions = MapDelete(@, k)]
                 ELSE [st EXCEPT !.sessions[k] = [a |-> a, b |-> b]]

\* case "join"
join_008(st, ws, sessionKey) ==
    IF sessionKey = NoKey THEN st
    ELSE LET s0 == [st EXCEPT !.sessionId[ws] = sessionKey]
         IN  IF sessionKey \notin DOMAIN s0.sessions
             THEN [s0 EXCEPT !.sessions = MapSet(@, sessionKey, [a |-> ws, b |-> Null])]
             ELSE IF s0.sessions[sessionKey].b = Null
             THEN notifyReady([s0 EXCEPT !.sessions[sessionKey].b = ws], sessionKey)
             ELSE s0

\* case "ping"
ping_008(st, ws) == safeSend(st, ws, [type |-> "pong"])

\* case "webrtc_offer" ... "reveal_frame"
relay_008(st, ws, msg) ==
    LET peer == getPeer(st, ws)
    IN  IF peer = Null THEN st ELSE safeSend(st, peer, msg)

\* case "collapse": msg.reason ?? "peer_exit"
collapse_008(st, ws, reason) ==
    LET peer == getPeer(st, ws)
        s1   == IF peer # Null
                THEN safeSend(st, peer, [type |-> "collapse",
                                         reason |-> IF reason = "absent" THEN "peer_exit"
                                                    ELSE reason])
                ELSE st
    IN  cleanup_008(s1, ws)

\* ws.on("close")
close_008(st, ws) ==
    LET peer == getPeer(st, ws)
        s1   == IF peer # Null
                THEN safeSend(st, peer, [type |-> "collapse", reason |-> "peer_lost"])
                ELSE st
    IN  cleanup_008(s1, ws)

\* one iteration of wss.clients.forEach in the heartbeat interval
sweepOne_008(st, ws) ==
    IF ~st.isAlive[ws]
    THEN [st EXCEPT !.readyState[ws] = "closing"]
    ELSE [st EXCEPT !.isAlive[ws] = FALSE]

RECURSIVE sweepFrom_008(_, _)
sweepFrom_008(st, ws) ==
    IF ws > NConn THEN st
    ELSE IF st.readyState[ws] \in {"open", "closing"}
         THEN sweepFrom_008(sweepOne_008(st, ws), ws + 1)
         ELSE sweepFrom_008(st, ws + 1)

Join_008 ==
    \E c \in Conn, k \in Keys \cup {NoKey} :
        /\ readyState[c] = "open"
        /\ Commit(join_008(St, c, k), [op |-> "join", conn |-> c, key |-> k])

Ping_008 ==
    \E c \in Conn :
        /\ readyState[c] = "open"
        /\ Commit(ping_008(St, c), [op |-> "ping", conn |-> c])

Relay_008 ==
    \E c \in Conn, t \in Relayed_008 :
        /\ readyState[c] = "open"
        /\ Commit(relay_008(St, c, [type |-> t]), [op |-> "relay", conn |-> c, type |-> t])

Collapse_008 ==
    \E c \in Conn, r \in Reasons :
        /\ readyState[c] = "open"
        /\ Commit(collapse_008(St, c, r), [op |-> "collapse", conn |-> c])

\* a message whose type the switch does not list
Unlisted_008 ==
    \E c \in Conn :
        /\ readyState[c] = "open"
        /\ Commit(St, [op |-> "unlisted", conn |-> c])

Close_008 ==
    \E c \in Conn :
        /\ readyState[c] = "closing"
        /\ Commit([close_008(St, c) EXCEPT !.readyState[c] = "closed"],
                  [op |-> "close", conn |-> c])

Sweep_008 ==
    /\ \E c \in Conn : readyState[c] \in {"open", "closing"}
    /\ Commit(sweepFrom_008(St, 1), [op |-> "sweep"])

Next_008 ==
    \/ Connect
    \/ Pong
    \/ BadJson
    \/ Join_008
    \/ Ping_008
    \/ Relay_008
    \/ Collapse_008
    \/ Unlisted_008
    \/ Drop
    \/ Close_008
    \/ Sweep_008

Spec_008 == Init /\ [][Next_008]_vars

\* c is one of two distinct occupants of the session its sessionId names, the
\* other being p, whose channel is open
PairedWith(c, p) ==
    /\ sessionId[c] \in DOMAIN sessions
    /\ Occupants(sessions[sessionId[c]]) = {c, p}
    /\ c # p
    /\ readyState[p] = "open"

\* C12 as stated: when an occupant of a paired session disconnects, the other
\* occupant is sent collapse with reason peer_lost and the entry of the session
\* key is removed from the table.
C12_PeerLostRemovesEntry ==
    [][\A c, p \in Conn :
          (ev'.op = "close" /\ ev'.conn = c /\ PairedWith(c, p))
            => /\ out' = << <<p, [type |-> "collapse", reason |-> "peer_lost"]>> >>
               /\ sessionId[c] \notin DOMAIN sessions']_vars

\* C12, amended: the other occupant is sent collapse with reason peer_lost, the
\* slot of the disconnected occupant is cleared, and the entry stays in the
\* table holding the other occupant alone.
C12_PeerLostClearsSlot ==
    [][\A c, p \in Conn :
          (ev'.op = "close" /\ ev'.conn = c /\ PairedWith(c, p))
            => /\ out' = << <<p, [type |-> "collapse", reason |-> "peer_lost"]>> >>
               /\ sessionId[c] \in DOMAIN sessions'
               /\ Occupants(sessions'[sessionId[c]]) = {p}]_vars

\* the close of one occupant has just left the other alone, notified
C12_Witness ==
    \E c, p \in Conn :
        /\ ev = [op |-> "close", conn |-> c]
        /\ c # p
        /\ out = << <<p, [type |-> "collapse", reason |-> "peer_lost"]>> >>
        /\ sessionId[c] \in DOMAIN sessions
        /\ Occupants(sessions[sessionId[c]]) = {p}

\* c is the only occupant of the session its sessionId names
SeatedAlone(c) ==
    /\ sessionId[c] \in DOMAIN sessions
    /\ Occupants(sessions[sessionId[c]]) = {c}

\* C13: a sweep that finds a connection alive only probes it (clears its flag
\* and leaves it open); the flag is set again by nothing but its pong; and the
\* next sweep, finding the flag still clear on a connection seated alone,
\* closes the connection and removes its session from the table.
C13_SecondSweepCollapses ==
    [][\A c \in Conn :
          /\ (ev'.op = "sweep" /\ readyState[c] = "open" /\ isAlive[c])
                => (readyState'[c] = "open" /\ ~isAlive'[c])
          /\ (readyState[c] = "open" /\ ~isAlive[c] /\ isAlive'[c])
                => ev' = [op |-> "pong", conn |-> c]
          /\ (ev'.op = "sweep" /\ readyState[c] \in {"open", "closing"}
                /\ ~isAlive[c] /\ SeatedAlone(c))
                => (readyState'[c] = "closing" /\ sessionId[c] \notin DOMAIN sessions')]_vars

\* a sweep has just closed a connection that was seated, and no session is left
C13_Witness ==
    \E c \in Conn :
        /\ ev.op = "sweep"
        /\ ev.unseated = {c}
        /\ readyState[c] = "closing"
        /\ sessionId[c] # NoKey
        /\ sessions = << >>
        /\ out = << >>

\* the pending handles in the timer queue l armed in session k on connection p
Handles(l, k, p) == {i \in 1..Len(l) : l[i] = <<k, p>>}
\* the step processes peer_restored from c while session k holds a timer on c
RestoredInTime(c, k) ==
    /\ ev' = [op |-> "peer_restored", conn |-> c]
    /\ sessionId[c] = k
    /\ k \in DOMAIN sessions
    /\ c \in sessions[k].timers

C15_ReporterToldRestored ==
    [][\A c, p \in Conn, k \in Keys :
          (RestoredInTime(c, k) /\ PairedWith(c, p))
            => p \in Recipients(out', "peer_restored")]_vars

\* C16: when the grace timer armed on occupant p of a paired session k fires, p is sent
\* collapse_grace_elapsed if its channel is open, p holds no slot of k after
\* the step, and every other occupant of k whose channel is open is sent
\* collapse_hard with reason grace_elapsed.
C16_GraceExpiryCollapses ==
    [][\A p \in Conn, k \in DOMAIN sessions :
          (ev' = [op |-> "grace_elapsed", conn |-> p, key |-> k]
             /\ p \in Occupants(sessions[k])
             /\ Cardinality(Occupants(sessions[k])) = 2)
            => /\ readyState[p] = "open" => p \in Recipients(out', "collapse_grace_elapsed")
               /\ k \in DOMAIN sessions' => p \notin Occupants(sessions'[k])
               /\ \A q \in Occupants(sessions[k]) \ {p} :
                     readyState[q] = "open"
                       => \E i \in Terminal(out') :
                             /\ out'[i][1] = q
                             /\ out'[i][2].reason = "grace_elapsed"]_vars

\* C17: the step that processes a peer_obstructed message from an occupant of a
\* paired session arms a grace timer on the other occupant and sends that
\* occupant peer_obstructed.
C17_ObstructionSignalArmsTimer ==
    [][\A c, p \in Conn :
          (ev' = [op |-> "relay", conn |-> c, type |-> "peer_obstructed"] /\ PairedWith(c, p))
            => /\ p \in sessions'[sessionId[c]].timers
               /\ Handles(live', sessionId[c], p) # {}
               /\ p \in Recipients(out', "peer_obstructed")]_vars

\* C18: a payload from a connection that is the only occupant of its session is
\* delivered to no one and stored nowhere: the step sends nothing and leaves
\* the table, the timers and every connection as they were.
C18_NoPeerDropsPayload ==
    [][\A c \in Conn :
          (ev'.op = "relay" /\ ev'.conn = c /\ SeatedAlone(c))
            => /\ out' = << >>
               /\ UNCHANGED <<sessions, sessionId, readyState, isAlive, live>>]_vars

\* the payload types no handler of the server emits on its own
ClientOnly == Payloads \ {"peer_obstructed"}

\* C19: the step that processes a payload sends that payload and nothing else,
\* once, to the other occupant of a paired session whose channel is open, and
\* keeps nothing back; no other step sends a payload.  So the peer receives
\* the payloads of a sender in the order the server processed them.
C19_RelayInProcessingOrder ==
    [][/\ \A c \in Conn :
             (ev'.op = "relay" /\ ev'.conn = c)
               => /\ Len(out') <= 1
                  /\ \A i \in 1..Len(out') : out'[i][2] = [type |-> ev'.type]
                  /\ \A p \in Conn :
                        PairedWith(c, p) => out' = << <<p, [type |-> ev'.type]>> >>
                  /\ UNCHANGED <<sessions, sessionId, readyState, isAlive, live>>
       /\ ev'.op # "relay" => \A t \in ClientOnly : Of(out', t) = {}]_vars

\* a text payload has just been delivered, alone, to the other occupant
C19_Witness ==
    \E c, p \in Conn :
        /\ ev = [op |-> "relay", conn |-> c, type |-> "text"]
        /\ c # p
        /\ IsOccupant(c)
        /\ Opposite(c) = {p}
        /\ out = << <<p, [type |-> "text"]>> >>

\* C20: the step that processes an unparseable message sends nothing and
\* changes no session, slot, timer, liveness flag or channel state: the sender
\* stays open and keeps its seat.
C20_BadJsonChangesNothing ==
    [][ev'.op = "bad_json"
         => /\ out' = << >>
            /\ readyState'[ev'.conn] = "open"
            /\ UNCHANGED <<sessions, sessionId, readyState, isAlive, live>>]_vars

\* an occupant of a paired session has just sent an unparseable message and
\* both occupants are still seated with open channels
C20_Witness ==
    \E c, p \in Conn :
        /\ ev = [op |-> "bad_json", conn |-> c]
        /\ out = << >>
        /\ PairedWith(c, p)
        /\ readyState[c] = "open"

\* the keys of the sessions in which c holds a slot
SeatsOf(c) == {k \in DOMAIN sessions : c \in Occupants(sessions[k])}

\* C21: a connection holds slots of at most one session, and a join under
\* another key by a connection that holds a slot changes neither the table
\* nor the session key recorded on the connection.
C21_OneSessionPerConnection ==
    /\ [](\A c \in Conn : Cardinality(SeatsOf(c)) <= 1)
    /\ [][\A c \in Conn :
             (ev'.op = "join" /\ ev'.conn = c /\ IsOccupant(c) /\ ev'.key # sessionId[c])
               => (sessions' = sessions /\ sessionId' = sessionId)]_vars

\* C22: a join from a connection that already holds a slot of the session of
\* that key leaves the slots of the session unchanged and sends nothing.
C22_DuplicateJoinNoOp ==
    [][\A c \in Conn, k \in Keys :
          (ev' = [op |-> "join", conn |-> c, key |-> k]
             /\ k \in DOMAIN sessions /\ c \in Occupants(sessions[k]))
            => (sessions' = sessions /\ out' = << >>)]_vars

\* C23: a join on a key whose session has slot A null and slot B occupied by
\* another connection places the joining connection in slot A.
C23_JoinFillsNullSlotA ==
    [][\A c \in Conn, k \in Keys :
          (ev' = [op |-> "join", conn |-> c, key |-> k]
             /\ k \in DOMAIN sessions
             /\ sessions[k].a = Null /\ sessions[k].b \notin {Null, c})
            => (k \in DOMAIN sessions' /\ sessions'[k].a = c)]_vars

\* C24: a join on a key absent from the table stores under that key a session
\* with the joining connection in slot A and slot B null, changes no other
\* entry, and sends nothing.
C24_FirstJoinCreates ==
    [][\A c \in Conn, k \in Keys :
          (ev' = [op |-> "join", conn |-> c, key |-> k] /\ k \notin DOMAIN sessions)
            => /\ DOMAIN sessions' = DOMAIN sessions \cup {k}
               /\ sessions'[k].a = c
               /\ sessions'[k].b = Null
               /\ sessions'[k].timers = {}
               /\ \A j \in DOMAIN sessions : sessions'[j] = sessions[j]
               /\ sessionId'[c] = k
               /\ out' = << >>]_vars

\* a join has just created the session: the joiner sits alone in slot A and
\* nothing was sent
C24_Witness ==
    \E c \in Conn, k \in Keys :
        /\ ev = [op |-> "join", conn |-> c, key |-> k]
        /\ k \in DOMAIN sessions
        /\ sessions[k] = [a |-> c, b |-> Null, timers |-> {}]
        /\ readyPairs[k] = 0
        /\ out = << >>

\* the sessions a step originates in: the session its timer was armed in for an
\* expiry, the sessions its connection holds a slot of otherwise
Origin ==
    IF ev'.op = "grace_elapsed" THEN {ev'.key} ELSE SeatsOf(ev'.conn)
\* the occupants of the sessions with keys in ks
OccupantsOf(ks) == UNION {Occupants(sessions[k]) : k \in ks \cap DOMAIN sessions}

\* C25: a step that originates in a session (a message or the close of one of
\* its occupants, the expiry of a timer armed in it) leaves every other session
\* in the table as it was and sends nothing to a connection that sits only in
\* other sessions.
C25_SessionsIsolated ==
    [][(ev'.op \in {"relay", "collapse_user", "collapse_hard", "peer_restored",
                    "close", "grace_elapsed"}
          /\ Origin # {})
         => /\ \A j \in DOMAIN sessions \ Origin :
                  j \in DOMAIN sessions' /\ sessions'[j] = sessions[j]
            /\ \A i \in 1..Len(out') :
                  out'[i][1] \in OccupantsOf(DOMAIN sessions \ Origin)
                    => out'[i][1] \in OccupantsOf(Origin)]_vars

\* C26: a sweep terminates a connection whose channel is open only if an
\* earlier sweep pinged it and neither its pong nor its acceptance was
\* processed since; a connection accepted or refreshed since the last sweep
\* stays open through this one.
C26_DeadOnlyAfterFullInterval ==
    [][\A c \in Conn :
          (ev'.op = "sweep" /\ readyState[c] = "open")
            => /\ readyState'[c] = "closing" => c \in pinged
               /\ c \notin pinged => (readyState'[c] = "open" /\ c \in pinged')]_vars

\* a sweep has just terminated a seated connection that left its ping
\* unanswered while pinging, for the first time, one accepted in between
C26_Witness ==
    \E c, d \in Conn :
        /\ ev.op = "sweep"
        /\ ev.unseated = {c}
        /\ readyState[c] = "closing"
        /\ c \in pinged
        /\ c < d
        /\ readyState[d] = "open"
        /\ ~isAlive[d]
        /\ d \in pinged

\* C27: after the step that processes a hard collapse, a close or a
\* restoration of a connection that holds a slot, no pending handle of a grace
\* timer armed on that connection is left, in whatever session.
C27_NoTimerAfterRemoval ==
    [][\A c \in Conn :
          (ev'.op \in {"collapse_hard", "close", "peer_restored"}
             /\ ev'.conn = c /\ SeatsOf(c) # {})
            => \A k \in Keys \cup Addr : Handles(live', k, c) = {}]_vars

\* ------------------------------------------ SDP-watchdog server (server.js)
\* src/server.js, lines 218-475: sessions are [a, b, sdpStarted, sdpTimer];
\* live holds the keys of the sessions whose watchdog setTimeout is pending, in
\* arming order (all run SDP_TIMEOUT_MS).  sdpTimer is TRUE once a handle was
\* stored in it.  Connection, pong, JSON guard, safeSend and getPeer are the
\* code of part_005; the sweep is the one of part_008.

\* msg.type values of the two relay cases that the model sends
Webrtc_sdp == {"webrtc_offer", "webrtc_ice"}
Live_sdp == {"text"}

\* cleanup(ws): ws.sessionId of a null ws throws
cleanup_sdp(st, ws) ==
    IF ws = Null THEN [st EXCEPT !.fault = TRUE]
    ELSE LET k == getSession(st, ws)
         IN  IF k = NoKey THEN st
             ELSE LET s  == st.sessions[k]
                      a  == IF s.a = ws THEN Null ELSE s.a
                      b  == IF s.b = ws THEN Null ELSE s.b
                      s1 == IF s.sdpTimer THEN [st EXCEPT !.live = SeqWithout(@, k)] ELSE st
                  IN  IF a = Null /\ b = Null
                      THEN [s1 EXCEPT !.sessions = MapDelete(@, k), !.descRelayed = @ \ {k}]
                      ELSE [s1 EXCEPT !.sessions[k].a = a, !.sessions[k].b = b]

\* case "join"
join_sdp(st, ws, sessionKey) ==
    IF sessionKey = NoKey THEN st
    ELSE LET s0 == [st EXCEPT !.sessionId[ws] = sessionKey]
         IN  IF sessionKey \notin DOMAIN s0.sessions
             THEN [s0 EXCEPT !.sessions = MapSet(@, sessionKey,
                                 [a |-> ws, b |-> Null, sdpStarted |-> FALSE, sdpTimer |-> FALSE])]
             ELSE IF s0.sessions[sessionKey].b = Null
             THEN LET s1 == [s0 EXCEPT !.sessions[sessionKey].b = ws,
                                       !.descRelayed = @ \ {sessionKey}]
                      s2 == safeSend(s1, s1.sessions[sessionKey].a, [type |-> "ready"])
                      s3 == safeSend(s2, s2.sessions[sessionKey].b, [type |-> "ready"])
                  IN  [s3 EXCEPT !.sessions[sessionKey].sdpTimer = TRUE,
                                 !.live = Append(@, sessionKey)]
             ELSE s0

\* the setTimeout callback of the join case; session is the object stored under k
sdpTimeout(st, k) ==
    LET s0 == [st EXCEPT !.live = Tail(@)]
    IN  IF s0.sessions[k].sdpStarted THEN s0
        ELSE LET s1 == safeSend(s0, s0.sessions[k].a,
                                [type |-> "collapse", reason |-> "sdp_timeout"])
                 s2 == safeSend(s1, s1.sessions[k].b,
                                [type |-> "collapse", reason |-> "sdp_timeout"])
                 s3 == cleanup_sdp(s2, s2.sessions[k].a)
             IN  IF s3.fault THEN s3
                 ELSE cleanup_sdp(s3, IF k \in DOMAIN s3.sessions
                                      THEN s3.sessions[k].b ELSE Null)

\* case "webrtc_offer", "webrtc_answer", "webrtc_ice"
relayWebrtc_sdp(st, ws, msg) ==
    LET peer == getPeer(st, ws)
        k    == getSession(st, ws)
    IN  IF peer = Null THEN st
        ELSE LET s1 == [st EXCEPT !.sessions[k].sdpStarted = TRUE]
                 s2 == safeSend(s1, peer, msg)
             IN  IF Len(s2.out) > 0 THEN [s2 EXCEPT !.descRelayed = @ \cup {k}] ELSE s2

\* case "text", "hold", "clear", "reveal_frame"
relayLive_sdp(st, ws, msg) ==
    LET peer == getPeer(st, ws)
    IN  IF peer = Null THEN st ELSE safeSend(st, peer, msg)

\* case "collapse": msg.reason ?? "peer_exit"
collapse_sdp(st, ws, reason) ==
    LET peer == getPeer(st, ws)
        s1   == IF peer # Null
                THEN safeSend(st, peer, [type |-> "collapse",
                                         reason |-> IF reason = "absent" THEN "peer_exit"
                                                    ELSE reason])
                ELSE st
    IN  cleanup_sdp(s1, ws)

\* ws.on("close")
close_sdp(st, ws) ==
    LET peer == getPeer(st, ws)
        s1   == IF peer # Null
                THEN safeSend(st, peer, [type |-> "collapse", reason |-> "peer_lost"])
                ELSE st
    IN  cleanup_sdp(s1, ws)

Join_sdp ==
    \E c \in Conn, k \in Keys \cup {NoKey} :
        /\ readyState[c] = "open"
        /\ Commit(join_sdp(St, c, k), [op |-> "join", conn |-> c, key |-> k])

RelayWebrtc_sdp ==
    \E c \in Conn, t \in Webrtc_sdp :
        /\ readyState[c] = "open"
        /\ Commit(relayWebrtc_sdp(St, c, [type |-> t]),
                  [op |-> "relay", conn |-> c, type |-> t])

RelayLive_sdp ==
    \E c \in Conn, t \in Live_sdp :
        /\ readyState[c] = "open"
        /\ Commit(relayLive_sdp(St, c, [type |-> t]),
                  [op |-> "relay", conn |-> c, type |-> t])

Collapse_sdp ==
    \E c \in Conn, r \in Reasons :
        /\ readyState[c] = "open"
        /\ Commit(collapse_sdp(St, c, r), [op |-> "collapse", conn |-> c])

Close_sdp ==
    \E c \in Conn :
        /\ readyState[c] = "closing"
        /\ Commit([close_sdp(St, c) EXCEPT !.readyState[c] = "closed"],
                  [op |-> "close", conn |-> c])

\* the watchdog armed first expires first
SdpTimeout ==
    /\ live # << >>
    /\ Commit(sdpTimeout(St, Head(live)), [op |-> "sdp_timeout", key |-> Head(live)])

Next_sdp ==
    \/ Connect
    \/ Pong
    \/ BadJson
    \/ Join_sdp
    \/ Ping_008
    \/ RelayWebrtc_sdp
    \/ RelayLive_sdp
    \/ Collapse_sdp
    \/ Drop
    \/ Close_sdp
    \/ Sweep_008
    \/ SdpTimeout

Spec_sdp == Init /\ [][Next_sdp]_vars

\* every pending watchdog belongs to a session in the table that stores its
\* handle, and a session has at most one pending
TimersCurrent_sdp ==
    /\ \A i \in 1..Len(live) : live[i] \in DOMAIN sessions /\ sessions[live[i]].sdpTimer
    /\ \A i, j \in 1..Len(live) : live[i] = live[j] => i = j

\* C28: no exception escapes a callback: the process stays up.
C28_NeverFatal == ~fault

\* C29: when the watchdog of a session whose slots hold two connections with
\* open channels expires: if no webrtc message was relayed in the session
\* since the two were paired, both are sent collapse with reason sdp_timeout and
\* the session is removed from the table; otherwise the expiry sends nothing
\* and changes no session.
C29_WatchdogCollapsesSilentPair ==
    [][\A k \in Keys :
          (ev' = [op |-> "sdp_timeout", key |-> k]
             /\ Cardinality(Occupants(sessions[k])) = 2
             /\ \A c \in Occupants(sessions[k]) : readyState[c] = "open")
            => IF k \in descRelayed
               THEN out' = << >> /\ sessions' = sessions
               ELSE /\ \A c \in Occupants(sessions[k]) :
                          \E i \in 1..Len(out') :
                             out'[i] = <<c, [type |-> "collapse", reason |-> "sdp_timeout"]>>
                    /\ k \notin DOMAIN sessions']_vars

\* ------------------------------------ header-keyed server (part_007)
\* src/unnamed/part_007: the session key is the sec-websocket-protocol header
\* of the upgrade request, seating happens in the connection handler, a
\* collapse deletes the session and terminates both connections.  No pong
\* handler is registered; safeSend is the code of part_005 and the sweep the
\* one of part_008.  A close frame the server sends is an output of type
\* "close".

\* getPeer
getPeer_007(st, ws) ==
    LET k == st.sessionId[ws]
    IN  IF k \notin DOMAIN st.sessions THEN Null
        ELSE IF st.sessions[k].a = ws THEN st.sessions[k].b ELSE st.sessions[k].a

\* ws.terminate(): a channel that is OPEN stops being so, the close event follows
terminate(st, ws) ==
    IF st.readyState[ws] = "open" THEN [st EXCEPT !.readyState[ws] = "closing"] ELSE st

hardCollapse_007(st, ws, reason) ==
    LET k == st.sessionId[ws]
    IN  IF k \notin DOMAIN st.sessions THEN st
        ELSE LET peer == getPeer_007(st, ws)
                 s1   == IF peer # Null
                         THEN terminate(safeSend(st, peer, [type |-> "presence_update",
                                                            isPresent |-> FALSE,
                                                            reason |-> reason]),
                                        peer)
                         ELSE st
                 s2   == [s1 EXCEPT !.sessions = MapDelete(@, k),
                                    !.registry = MapDelete(@, k)]
             IN  terminate(s2, ws)

\* a connection handler that registers the handlers of a rejected connection too
connectionListening_007(st, ws, key) ==
    LET s0 == [st EXCEPT !.readyState[ws] = "open", !.isAlive[ws] = TRUE,
                         !.sessionId[ws] = key, !.registry = MapSet(@, key, ws),
                         !.listening = @ \cup {ws}]
    IN  IF key \notin DOMAIN s0.sessions
        THEN [s0 EXCEPT !.sessions = MapSet(@, key, [a |-> ws, b |-> Null])]
        ELSE IF s0.sessions[key].b = Null
        THEN LET s1 == [s0 EXCEPT !.sessions[key].b = ws]
                 s2 == safeSend(s1, s1.sessions[key].a,
                                [type |-> "presence_update", isPresent |-> TRUE,
                                 role |-> "initiator"])
             IN  safeSend(s2, s2.sessions[key].b,
                          [type |-> "presence_update", isPresent |-> TRUE,
                           role |-> "polite"])
        ELSE [s0 EXCEPT !.out = Append(@, <<ws, [type |-> "close", code |-> 1000,
                                                 reason |-> "ROOM_FULL"]>>),
                        !.readyState[ws] = "closing"]

\* wss.on("connection"): the handlers are registered unless the room is full
connection_007(st, ws, key) ==
    LET s0 == [st EXCEPT !.readyState[ws] = "open", !.isAlive[ws] = TRUE,
                         !.sessionId[ws] = key, !.registry = MapSet(@, key, ws)]
    IN  IF key \notin DOMAIN s0.sessions
        THEN [s0 EXCEPT !.sessions = MapSet(@, key, [a |-> ws, b |-> Null]),
                        !.listening = @ \cup {ws}]
        ELSE IF s0.sessions[key].b = Null
        THEN LET s1 == [s0 EXCEPT !.sessions[key].b = ws, !.listening = @ \cup {ws}]
                 s2 == safeSend(s1, s1.sessions[key].a,
                                [type |-> "presence_update", isPresent |-> TRUE,
                                 role |-> "initiator"])
             IN  safeSend(s2, s2.sessions[key].b,
                          [type |-> "presence_update", isPresent |-> TRUE,
                           role |-> "polite"])
        ELSE [s0 EXCEPT !.out = Append(@, <<ws, [type |-> "close", code |-> 1000,
                                                 reason |-> "ROOM_FULL"]>>),
                        !.readyState[ws] = "closing"]

\* msg.type === "lookup_address"
lookup_007(st, ws, address) ==
    safeSend(st, ws, [type |-> "lookup_response", found |-> address \in DOMAIN st.registry])

\* msg.type === "send_proposal"
sendProposal_007(st, ws, toAddress) ==
    IF toAddress \in DOMAIN st.registry
    THEN safeSend(st, st.registry[toAddress], [type |-> "incoming_proposal"])
    ELSE st

\* msg.type === "heartbeat"
heartbeat_007(st, ws, foreground) ==
    LET s1 == [st EXCEPT !.isAlive[ws] = TRUE]
    IN  IF foreground = FALSE THEN hardCollapse_007(s1, ws, "peer_backgrounded") ELSE s1

\* passthrough: peer.send(raw) without the readyState test of safeSend; on a
\* channel that is not OPEN the ws library either drops the data or throws,
\* depending on its version
passthrough_007(st, ws, msg, throws) ==
    LET peer == getPeer_007(st, ws)
    IN  IF peer = Null THEN st
        ELSE IF st.readyState[peer] = "open" THEN [st EXCEPT !.out = Append(@, <<peer, msg>>)]
        ELSE IF throws THEN [st EXCEPT !.fault = TRUE]
        ELSE st

\* ws.on("close")
close_007(st, ws) ==
    hardCollapse_007([st EXCEPT !.registry = MapDelete(@, st.sessionId[ws])], ws, "socket_closed")

\* a client can send while its channel is OPEN, and a rejected one until the
\* close handshake ends; its message reaches a handler only if one was registered
Sends_007(c) ==
    \/ readyState[c] = "open"
    \/ readyState[c] = "closing" /\ c \notin listening

Connect_007 ==
    \E c \in Conn, k \in Keys :
        /\ readyState[c] = "new"
        /\ \A d \in Conn : d < c => readyState[d] # "new"
        /\ Commit(connection_007(St, c, k), [op |-> "connect", conn |-> c, key |-> k])

BadJson_007 ==
    \E c \in Conn :
        /\ Sends_007(c)
        /\ Commit(St, [op |-> "bad_json", conn |-> c])

Lookup_007 ==
    \E c \in Conn, k \in Keys \cup {NoKey} :
        /\ Sends_007(c)
        /\ Commit(IF c \in listening THEN lookup_007(St, c, k) ELSE St,
                  [op |-> "lookup_address", conn |-> c])

SendProposal_007 ==
    \E c \in Conn, k \in Keys \cup {NoKey} :
        /\ Sends_007(c)
        /\ Commit(IF c \in listening THEN sendProposal_007(St, c, k) ELSE St,
                  [op |-> "send_proposal", conn |-> c])

Heartbeat_007 ==
    \E c \in Conn, fg \in BOOLEAN :
        /\ Sends_007(c)
        /\ Commit(IF c \in listening THEN heartbeat_007(St, c, fg) ELSE St,
                  [op |-> "heartbeat", conn |-> c])

Passthrough_007 ==
    \E c \in Conn, throws \in BOOLEAN :
        /\ Sends_007(c)
        /\ Commit(IF c \in listening THEN passthrough_007(St, c, [type |-> "offer"], throws)
                  ELSE St,
                  [op |-> "relay", conn |-> c])

\* the close event: the channel is CLOSED when the handler, if any, runs
Close_007 ==
    \E c \in Conn :
        /\ readyState[c] = "closing"
        /\ Commit(IF c \in listening
                  THEN close_007([St EXCEPT !.readyState[c] = "closed"], c)
                  ELSE [St EXCEPT !.readyState[c] = "closed"],
                  [op |-> "close", conn |-> c])

Next_007 ==
    \/ Connect_007
    \/ BadJson_007
    \/ Lookup_007
    \/ SendProposal_007
    \/ Heartbeat_007
    \/ Passthrough_007
    \/ Drop
    \/ Close_007
    \/ Sweep_008

Spec_007 == Init /\ [][Next_007]_vars

\* a connection the connection handler turned away: accepted by the listener,
\* no handler registered
Rejected_007(c) == readyState[c] \in {"closing", "closed"} /\ c \notin listening

ClientOps_007 == {"bad_json", "lookup_address", "send_proposal", "heartbeat", "relay", "close"}

\* C30: in the header-keyed server with room-full handling, a connection that
\* arrives for a session whose two slots are occupied is closed with reason
\* ROOM_FULL and is seated in no slot, and nothing it does afterwards (a
\* message of any type, its close) changes a slot of the session or delivers
\* anything to anybody.
C30_RoomFullRejected ==
    [][\A c \in Conn :
          /\ \A k \in Keys :
                (ev' = [op |-> "connect", conn |-> c, key |-> k]
                   /\ k \in DOMAIN sessions /\ Full(sessions[k]))
                  => /\ out' = << <<c, [type |-> "close", code |-> 1000,
                                        reason |-> "ROOM_FULL"]>> >>
                     /\ readyState'[c] = "closing"
                     /\ sessions' = sessions
                     /\ c \notin Occupants(sessions'[k])
                     /\ Rejected_007(c)'
          /\ \A o \in ClientOps_007 :
                (Rejected_007(c) /\ ev' = [op |-> o, conn |-> c])
                  => /\ sessions' = sessions
                     /\ out' = << >>
                     /\ \A d \in Conn \ {c} : readyState'[d] = readyState[d]]_vars

\* a rejected connection has sent a heartbeat and the session it was turned
\* away from still seats its two open occupants
C30_Witness ==
    \E c \in Conn, k \in Keys :
        /\ Rejected_007(c)
        /\ ev = [op |-> "heartbeat", conn |-> c]
        /\ sessionId[c] = k
        /\ k \in DOMAIN sessions
        /\ Full(sessions[k])
        /\ c \notin Occupants(sessions[k])
        /\ \A d \in Occupants(sessions[k]) : readyState[d] = "open"

\* ------------------------- header-keyed server, first variant (part_002)
\* src/unnamed/part_002 lines 1-82: the session key is the
\* sec-websocket-protocol header, a third connection of a key is seated
\* nowhere but keeps its handlers, and a backgrounding heartbeat goes
\* through hardCollapse.  safeSend and getPeer are the code of part_007 and
\* the sweep the one of part_008.

hardCollapse_002(st, ws, reason) ==
    LET k == st.sessionId[ws]
    IN  IF k \notin DOMAIN st.sessions THEN st
        ELSE LET peer == getPeer_007(st, ws)
                 s1   == IF peer # Null
                         THEN safeSend(st, peer, [type |-> "presence_update",
                                                  isPresent |-> FALSE,
                                                  reason |-> reason])
                         ELSE st
                 a2   == IF s1.sessions[k].a = ws THEN Null ELSE s1.sessions[k].a
                 b2   == IF s1.sessions[k].b = ws THEN Null ELSE s1.sessions[k].b
                 s2   == IF a2 = Null /\ b2 = Null
                         THEN [s1 EXCEPT !.sessions = MapDelete(@, k)]
                         ELSE [s1 EXCEPT !.sessions[k] = [a |-> a2, b |-> b2]]
             IN  terminate(s2, ws)

\* wss.on("connection")
connection_002(st, ws, key) ==
    LET s0 == [st EXCEPT !.readyState[ws] = "open", !.isAlive[ws] = TRUE,
                         !.sessionId[ws] = key]
    IN  IF key \notin DOMAIN s0.sessions
        THEN [s0 EXCEPT !.sessions = MapSet(@, key, [a |-> ws, b |-> Null])]
        ELSE IF s0.sessions[key].b = Null
        THEN LET s1 == [s0 EXCEPT !.sessions[key].b = ws]
                 s2 == safeSend(s1, s1.sessions[key].a,
                                [type |-> "presence_update", isPresent |-> TRUE,
                                 role |-> "initiator"])
             IN  safeSend(s2, s2.sessions[key].b,
                          [type |-> "presence_update", isPresent |-> TRUE,
                           role |-> "polite"])
        ELSE s0

\* msg.type === 'heartbeat'
heartbeat_002(st, ws, foreground) ==
    LET s1 == [st EXCEPT !.isAlive[ws] = TRUE]
    IN  IF foreground = FALSE THEN hardCollapse_002(s1, ws, "backgrounded") ELSE s1

\* every other message: forwarded to the peer
relay_002(st, ws, msg) ==
    LET peer == getPeer_007(st, ws)
    IN  IF peer # Null THEN safeSend(st, peer, msg) ELSE st

Connect_002 ==
    \E c \in Conn, k \in Keys :
        /\ readyState[c] = "new"
        /\ \A d \in Conn : d < c => readyState[d] # "new"
        /\ Commit(connection_002(St, c, k), [op |-> "connect", conn |-> c, key |-> k])

Heartbeat_002 ==
    \E c \in Conn, fg \in BOOLEAN :
        /\ readyState[c] = "open"
        /\ Commit(heartbeat_002(St, c, fg),
                  [op |-> "heartbeat", conn |-> c, foreground |-> fg])

Relay_002 ==
    \E c \in Conn :
        /\ readyState[c] = "open"
        /\ Commit(relay_002(St, c, [type |-> "offer"]), [op |-> "relay", conn |-> c])

\* ws.on("error"): the library reports a failure of an open channel
Error_002 ==
    \E c \in Conn :
        /\ readyState[c] = "open"
        /\ Commit(hardCollapse_002(St, c, "socket_error"), [op |-> "error", conn |-> c])

\* ws.on("close"): the channel is CLOSED when the handler runs
Close_002 ==
    \E c \in Conn :
        /\ readyState[c] = "closing"
        /\ Commit(hardCollapse_002([St EXCEPT !.readyState[c] = "closed"], c, "socket_closed"),
                  [op |-> "close", conn |-> c])

Next_002 ==
    \/ Connect_002
    \/ Pong
    \/ BadJson
    \/ Heartbeat_002
    \/ Relay_002
    \/ Error_002
    \/ Drop
    \/ Close_002
    \/ Sweep_008

Spec_002 == Init /\ [][Next_002]_vars

\* C31: a heartbeat with foreground false from an occupant refreshes its
\* liveness and leaves it seated with its connection open (the obstruction
\* it starts is soft: removal comes only after a grace window without
\* restoration).
C31_BackgroundingIsSoft ==
    [][\A c \in Conn, k \in Keys :
          (ev' = [op |-> "heartbeat", conn |-> c, foreground |-> FALSE]
             /\ k \in DOMAIN sessions
             /\ c \in Occupants(sessions[k]))
            => /\ isAlive'[c]
               /\ readyState'[c] = "open"
               /\ k \in DOMAIN sessions'
               /\ c \in Occupants(sessions'[k])]_vars

\* C32: the two slots of a session never hold the same connection, getPeer
\* never returns the asking connection, and a relayed payload is never
\* delivered to its own sender.
C32_SlotsDistinct ==
    /\ \A k \in DOMAIN sessions :
          sessions[k].a # Null => sessions[k].a # sessions[k].b
    /\ \A c \in Conn : readyState[c] = "open" => getPeer(St, c) # c
    /\ \A c \in Conn, t \in Payloads :
          ev = [op |-> "relay", conn |-> c, type |-> t]
            => \A i \in 1..Len(out) : out[i][1] # c

MessageOps == {"relay", "collapse_user", "collapse_hard", "peer_restored", "bad_json"}

\* C33: a connection seated in no slot of a session causes no message to be
\* delivered to an occupant of that session, neither by a message it sends
\* after its join nor by its close.
C33_OutsiderDeliversNothing ==
    [][\A c \in Conn, k \in Keys :
          (/\ k \in DOMAIN sessions
           /\ c \notin Occupants(sessions[k])
           /\ ev'.op \in MessageOps \cup {"close"}
           /\ ev'.conn = c)
            => \A i \in 1..Len(out') : out'[i][1] \notin Occupants(sessions[k])]_vars

\* clients that join under several keys and leave: the connection, join and
\* close handlers of part_005
NextLeave ==
    \/ Connect
    \/ JoinAny
    \/ CollapseUser
    \/ Drop
    \/ Close

SpecLeave == Init /\ [][NextLeave]_vars

\* C34: no session outlives its connections.  When every connection that was
\* ever accepted has closed and its close event was processed, every
\* connection that ever joined a key has, so the session table is empty and
\* no slot holds a closed connection.
C34_NoSessionOutlivesConnections ==
    (\A c \in Conn : readyState[c] \in {"new", "closed"})
        => DOMAIN sessions = {}

\* C35: peer_restored is sent to a connection only in the step that processes
\* its own peer_restored signal while a grace timer of it is pending; no step
\* that removes an obstructed occupant (hard collapse, close, sweep, grace
\* expiry) sends it peer_restored.
C35_RestoredOnlyOnRestoration ==
    [][\A c \in Conn :
          c \in Recipients(out', "peer_restored")
            => /\ ev' = [op |-> "peer_restored", conn |-> c]
               /\ Handles(live, sessionId[c], c) # {}]_vars

\* C36: in the header-keyed server whose collapse terminates both
\* connections, the close event of a connection that its session's collapse
\* already removed leaves a session created later under the same key alone:
\* it sends nothing, terminates no other connection and keeps the table.
C36_LateCloseSparesNewSession ==
    [][\A c \in Conn, k \in Keys :
          (/\ ev' = [op |-> "close", conn |-> c]
           /\ c \in listening
           /\ sessionId[c] = k
           /\ k \in DOMAIN sessions
           /\ c \notin Occupants(sessions[k]))
            => /\ out' = << >>
               /\ sessions' = sessions
               /\ \A d \in Conn \ {c} : readyState'[d] = readyState[d]]_vars

\* ------------------------------------------- room-list server (part_001)
\* src/unnamed/part_001: a room is an array of at most two sockets keyed by
\* ws.protocol, the roles are announced when the array reaches two elements,
\* and the close handler splices the socket out.  sessionId holds the roomId
\* the handlers of a connection close over.  Nicknames are payload and left
\* out.  ws.send on a channel that is not OPEN either drops the data or
\* throws, depending on the version of the ws library.

\* ws.send(JSON.stringify(msg)) with no readyState test
rawSend(st, ws, msg, throws) ==
    IF st.readyState[ws] = "open" THEN [st EXCEPT !.out = Append(@, <<ws, msg>>)]
    ELSE IF throws THEN [st EXCEPT !.fault = TRUE]
    ELSE st

\* the role notice, remembered for the connection it reaches
sendRole(st, ws, role, throws) ==
    LET s1 == rawSend(st, ws, [type |-> "presence_update", isPresent |-> TRUE,
                               role |-> role], throws)
    IN  IF st.readyState[ws] = "open" THEN [s1 EXCEPT !.told[ws] = @ \cup {role}] ELSE s1

\* wss.on('connection')
connection_001(st, ws, roomId, throws) ==
    LET s0 == [st EXCEPT !.readyState[ws] = "open", !.sessionId[ws] = roomId]
    IN  IF roomId = NoKey
        THEN [s0 EXCEPT !.out = Append(@, <<ws, [type |-> "close", code |-> 1002,
                                                 reason |-> "Protocol Required"]>>),
                        !.readyState[ws] = "closing"]
        ELSE LET s1 == IF roomId \in DOMAIN s0.rooms THEN s0
                       ELSE [s0 EXCEPT !.rooms = MapSet(@, roomId, << >>)]
             IN  IF Len(s1.rooms[roomId]) >= 2
                 THEN [s1 EXCEPT !.out = Append(@, <<ws, [type |-> "close", code |-> 1013,
                                                          reason |-> "Room Full"]>>),
                                 !.readyState[ws] = "closing"]
                 ELSE LET s2 == [s1 EXCEPT !.rooms[roomId] = Append(@, ws),
                                           !.listening = @ \cup {ws}]
                          clients == s2.rooms[roomId]
                      IN  IF Len(clients) = 2
                          THEN LET s3 == sendRole(s2, clients[1], "initiator", throws)
                               IN  IF s3.fault THEN s3
                                   ELSE sendRole(s3, clients[2], "polite", throws)
                          ELSE s2

\* clients.find(client => client !== ws)
otherPeer_001(clients, ws) ==
    LET others == {i \in 1..Len(clients) : clients[i] # ws}
    IN  IF others = {} THEN Null
        ELSE clients[CHOOSE i \in others : \A j \in others : i <= j]

\* ws.on('message'): relay to the other client of the room when it is OPEN
message_001(st, ws, msg) ==
    LET otherPeer == otherPeer_001(st.rooms[st.sessionId[ws]], ws)
    IN  IF otherPeer # Null /\ st.readyState[otherPeer] = "open"
        THEN [st EXCEPT !.out = Append(@, <<otherPeer, msg>>)]
        ELSE st

\* ws.on('close')
close_001(st, ws, throws) ==
    LET roomId  == st.sessionId[ws]
        clients == SelectSeq(st.rooms[roomId], LAMBDA x : x # ws)
        s1      == [st EXCEPT !.rooms[roomId] = clients]
    IN  IF Len(clients) = 1
        THEN rawSend(s1, clients[1], [type |-> "presence_update", isPresent |-> FALSE,
                                      role |-> "none"], throws)
        ELSE [s1 EXCEPT !.rooms = MapDelete(@, roomId)]

Connect_001 ==
    \E c \in Conn, k \in Keys \cup {NoKey}, throws \in BOOLEAN :
        /\ readyState[c] = "new"
        /\ \A d \in Conn : d < c => readyState[d] # "new"
        /\ Commit(connection_001(St, c, k, throws), [op |-> "connect", conn |-> c, key |-> k])

Message_001 ==
    \E c \in Conn :
        /\ readyState[c] = "open"
        /\ c \in listening
        /\ Commit(message_001(St, c, [type |-> "offer"]), [op |-> "relay", conn |-> c])

\* JSON.parse throws inside the try block of the message handler
BadJson_001 ==
    \E c \in Conn :
        /\ readyState[c] = "open"
        /\ Commit(St, [op |-> "bad_json", conn |-> c])

\* the close event: the channel is CLOSED when the handler, if any, runs
Close_001 ==
    \E c \in Conn, throws \in BOOLEAN :
        /\ readyState[c] = "closing"
        /\ Commit(IF c \in listening
                  THEN close_001([St EXCEPT !.readyState[c] = "closed"], c, throws)
                  ELSE [St EXCEPT !.readyState[c] = "closed"],
                  [op |-> "close", conn |-> c])

Next_001 ==
    \/ Connect_001
    \/ Message_001
    \/ BadJson_001
    \/ Drop
    \/ Close_001

Spec_001 == Init /\ [][Next_001]_vars

\* C37: in the room-list server a connection that was notified of a role is
\* never notified of a different one, also after its peer left and a new
\* peer joined the room.
C37_RoleNeverChanges ==
    \A c \in Conn : Cardinality(told[c]) <= 1

\* the connections that the outputs o tell of an obstruction with a grace
\* window (a relayed client payload carries no seconds field)
GraceAnnounced(o) ==
    {o[i][1] : i \in {j \in 1..Len(o) : /\ o[j][2].type = "peer_obstructed"
                                         /\ "seconds" \in DOMAIN o[j][2]}}

\* C38: whenever a step of the server sends a connection a peer_obstructed
\* notice that announces a grace window, a grace timer on that connection is
\* pending after the step (so that peer_restored or a terminal notice follows).
C38_AnnouncedGraceHasTimer ==
    [][\A p \in GraceAnnounced(out') :
          \E k \in DOMAIN sessions' :
             /\ p \in sessions'[k].timers
             /\ Handles(live', k, p) # {}]_vars
====
